---- MODULE Spec2Model ----
(***************************************************************************)
(* Model of web/server.py: the home route handler (GET /) and its helper   *)
(* fetch_graphql_data.  A request (requests share no state) runs through   *)
(*   Idle -> Fetching -> Normalizing -> Rendering -> Rendered.             *)
(* JSON values are records, strings that the code parses (block numbers)   *)
(* are sequences of one-character strings.                                 *)
(***************************************************************************)
EXTENDS Integers, Sequences, FiniteSets

VARIABLES endpoint, pc, held, posts, outcome, blocks_data, data, error, view

vars == <<endpoint, pc, held, posts, outcome, blocks_data, data, error, view>>

\* ------------------------------------------------------------------ bounds
MaxBlocks == 2
MaxTxs == 2

\* ------------------------------------------------------- generic helpers
Range(s) == {s[i] : i \in DOMAIN s}

\* lists[i] \o ... \o lists[Len(lists)]
RECURSIVE ConcatFrom(_, _)
ConcatFrom(lists, i) ==
    IF i > Len(lists) THEN <<>> ELSE lists[i] \o ConcatFrom(lists, i + 1)

Concat(lists) == ConcatFrom(lists, 1)

\* ---------------------------------------------------- the input domain
\* Block "number" strings as the endpoint may send them.
\*   "0x1a"=26  "26"=26  "0x2"=2  "10"=10  "1z" is not a number
NumberStrings ==
    { <<"0","x","1","a">>, <<"2","6">>, <<"0","x","2">>, <<"1","0">> }

BadNumberStrings == { <<"1","z">> }

\* A block's "transactions" member: absent/null, a list of MaxTxs
\* transactions, or a truthy non-iterable JSON value (a non-zero number, true).
TxList(h, n) == [j \in 1..n |-> <<h, j>>]

TxField(h) ==
    { [kind |-> "null", list |-> <<>>],
      [kind |-> "int", list |-> <<>>],
      [kind |-> "list", list |-> TxList(h, MaxTxs)] }

\* The block at position h of the returned list; hash is its identity.
BlockAt(h) ==
    { [hash |-> h, hasNumber |-> hn, number |-> num, transactions |-> tx] :
        hn \in {TRUE}, num \in NumberStrings \cup BadNumberStrings, tx \in TxField(h) }
    \cup
    { [hash |-> h, hasNumber |-> FALSE, number |-> <<>>, transactions |-> tx] :
        tx \in TxField(h) }

RECURSIVE BlockListsOfLen(_)
BlockListsOfLen(n) ==
    IF n = 0 THEN {<<>>}
    ELSE {Append(bl, b) : bl \in BlockListsOfLen(n - 1), b \in BlockAt(n)}

BlockLists == UNION {BlockListsOfLen(n) : n \in 0..MaxBlocks}

ErrorsPayloads == {"[{'message': 'bad query'}]", "[{'message': 'no schema'}]"}

NoData == [isNull |-> FALSE, hasBlock |-> FALSE, Block |-> <<>>]

DataNull == [isNull |-> TRUE, hasBlock |-> FALSE, Block |-> <<>>]

DataValues ==
    {NoData, DataNull}
    \cup {[isNull |-> FALSE, hasBlock |-> TRUE, Block |-> bl] : bl \in BlockLists}

\* Python None (also what response.json() gives for the body "null").
None == [kind |-> "null", hasData |-> FALSE, data |-> NoData,
         hasErrors |-> FALSE, errors |-> ""]

NotJson == [kind |-> "text", hasData |-> FALSE, data |-> NoData,
            hasErrors |-> FALSE, errors |-> ""]

\* {"data": ...}, {"errors": ...}, {"data": ..., "errors": ...} (data null,
\* empty, or one block) and {}.
JsonObjects ==
    { [kind |-> "object", hasData |-> TRUE, data |-> d, hasErrors |-> FALSE, errors |-> ""] :
        d \in DataValues }
    \cup
    { [kind |-> "object", hasData |-> TRUE, data |-> d, hasErrors |-> TRUE, errors |-> e] :
        d \in {dv \in DataValues : Len(dv.Block) <= 1}, e \in ErrorsPayloads }
    \cup
    { [kind |-> "object", hasData |-> FALSE, data |-> NoData, hasErrors |-> TRUE, errors |-> e] :
        e \in ErrorsPayloads }
    \cup
    { [kind |-> "object", hasData |-> FALSE, data |-> NoData, hasErrors |-> FALSE, errors |-> ""] }

Bodies == {None, NotJson} \cup JsonObjects

Statuses == {200, 500}

NoOutcome == [kind |-> "none", status |-> 0, body |-> None]

\* What awaiting client.post can produce.
PostOutcomes ==
    { [kind |-> "response", status |-> s, body |-> b] : s \in Statuses, b \in Bodies }
    \cup { [kind |-> "timeout", status |-> 0, body |-> None],
           [kind |-> "fault", status |-> 0, body |-> None] }

\* --------------------------------------------------- int(), the sort key
HexDigits == <<"0","1","2","3","4","5","6","7","8","9","a","b","c","d","e","f">>

IsDigit(c, base) == \E i \in 1..base : HexDigits[i] = c

DigitValue(c) == (CHOOSE i \in 1..16 : HexDigits[i] = c) - 1

\* The value of the first n digits of s.
RECURSIVE DigitsValue(_, _, _)
DigitsValue(s, base, n) ==
    IF n = 0 THEN 0 ELSE DigitsValue(s, base, n - 1) * base + DigitValue(s[n])

startswith0x(s) == Len(s) >= 2 /\ s[1] = "0" /\ s[2] = "x"

\* Exceptions of the key function, as negative results.
ValueError == 0 - 1
KeyError == 0 - 2

\* Python's int(s, base): base 16 accepts an optional "0x" prefix.
int(s, base) ==
    LET digits == IF base = 16 /\ startswith0x(s) THEN SubSeq(s, 3, Len(s)) ELSE s
    IN  IF digits = <<>> \/ \E i \in DOMAIN digits : ~IsDigit(digits[i], base)
        THEN ValueError
        ELSE DigitsValue(digits, base, Len(digits))

\* A mutant of SortKey: the hexadecimal branch is missing, every number
\* goes through int(b["number"]).
SortKeyDecimalOnly(b) ==
    IF ~b.hasNumber THEN KeyError ELSE int(b.number, 10)

\* lambda b: int(b["number"], 16) if b["number"].startswith("0x") else int(b["number"])
SortKey(b) ==
    IF ~b.hasNumber THEN KeyError
    ELSE IF startswith0x(b.number) THEN int(b.number, 16) ELSE int(b.number, 10)

\* list.sort(key=..., reverse=True): stable, largest key first.  The
\* element at index i ends after every element with a larger key and after
\* the elements with an equal key that came before it.
SortedIndex(blocks, i) ==
    1 + Cardinality({j \in DOMAIN blocks : SortKey(blocks[j]) > SortKey(blocks[i])})
      + Cardinality({j \in 1..(i - 1) : SortKey(blocks[j]) = SortKey(blocks[i])})

sort(blocks) ==
    [p \in DOMAIN blocks |->
        blocks[CHOOSE i \in DOMAIN blocks : SortedIndex(blocks, i) = p]]

\* The key function is applied to every element before anything moves;
\* the first failing element decides the exception.
SortRaises(blocks) == \E i \in DOMAIN blocks : SortKey(blocks[i]) < 0

FirstBadKey(blocks) ==
    SortKey(blocks[CHOOSE i \in DOMAIN blocks :
                      /\ SortKey(blocks[i]) < 0
                      /\ \A j \in 1..(i - 1) : SortKey(blocks[j]) >= 0])

\* ------------------------------------------------------------ messages
NoError == <<>>

GraphQLErrorPrefix == "GraphQL Error: "
FailedToFetch == "Failed to fetch data from DefraDB"
FailedToFetchPrefix == "Failed to fetch data from DefraDB: "
TimedOut == "Request to DefraDB timed out. The service might be busy."

\* str(e) of the exceptions the body of home can raise.
ExceptionText(raised) ==
    CASE raised = "AttributeError" -> "'NoneType' object has no attribute 'get'"
      [] raised = "KeyError" -> "'number'"
      [] raised = "ValueError" -> "invalid literal for int() with base 10"
      [] raised = "TypeError" -> "'int' object is not iterable"
      [] OTHER -> ""

\* ------------------------------------------------- fetch_graphql_data
\* A mutant of fetch_graphql_data: the status check is missing, the body
\* is parsed and returned whatever the status.
fetch_graphql_data_any_status(o) ==
    IF o.kind = "response" /\ o.body.kind # "text" THEN o.body ELSE None

\* The value fetch_graphql_data returns for what client.post produced:
\* the parsed body on status 200, None on any other status and on every
\* exception (timeout, transport fault, response.json() failing).
fetch_graphql_data(o) ==
    IF o.kind = "response"
    THEN IF o.status = 200
         THEN IF o.body.kind = "text" THEN None ELSE o.body
         ELSE None
    ELSE None

\* ------------------------------------------------------- body of home
\* bool(blocks_data): None and the empty object are falsy.
Truthy(bd) == bd.kind = "object" /\ (bd.hasData \/ bd.hasErrors)

\* A mutant of HasData: an empty Block list counts as no data.
HasDataNonEmpty(bd) ==
    Truthy(bd) /\ bd.hasData /\ bd.data.hasBlock /\ bd.data.Block # <<>>

\* blocks_data and "data" in blocks_data
HasData(bd) == Truthy(bd) /\ bd.hasData

\* blocks_data and "errors" in blocks_data
HasErrors(bd) == Truthy(bd) /\ bd.hasErrors

\* block.get("transactions") is truthy
HasTransactions(b) ==
    \/ b.transactions.kind = "int"
    \/ b.transactions.kind = "list" /\ b.transactions.list # <<>>

\* transactions.extend(block["transactions"]) raises on a non-iterable.
ExtendRaises(blocks) ==
    \E i \in DOMAIN blocks :
        HasTransactions(blocks[i]) /\ blocks[i].transactions.kind # "list"

Flatten(blocks) ==
    Concat([i \in DOMAIN blocks |->
              IF HasTransactions(blocks[i]) THEN blocks[i].transactions.list ELSE <<>>])

TryResult(blocks, transactions, err, raised) ==
    [blocks |-> blocks, transactions |-> transactions, error |-> err, raised |-> raised]

\* The statements inside the try of home after the fetch: what data and
\* error hold when the block is left, and the exception that left it.
TryBody(bd) ==
    IF HasData(bd)
    THEN IF bd.data.isNull
         THEN TryResult(<<>>, <<>>, NoError, "AttributeError")
         ELSE LET blocks == IF bd.data.hasBlock THEN bd.data.Block ELSE <<>>
              IN  IF SortRaises(blocks)
                  THEN TryResult(<<>>, <<>>, NoError,
                               IF FirstBadKey(blocks) = KeyError
                               THEN "KeyError" ELSE "ValueError")
                  ELSE IF ExtendRaises(sort(blocks))
                       THEN TryResult(sort(blocks), <<>>, NoError, "TypeError")
                       ELSE TryResult(sort(blocks), Flatten(sort(blocks)), NoError, "")
    ELSE IF HasErrors(bd)
         THEN TryResult(<<>>, <<>>, <<GraphQLErrorPrefix, bd.errors>>, "")
         ELSE TryResult(<<>>, <<>>, <<FailedToFetch>>, "")

\* A mutant of Handled: only the timeout handler is there.
HandledTimeoutOnly(raised) == raised = "TimeoutException"

\* except httpx.TimeoutException / except Exception: every exception class
\* the body raises derives from Exception.
Handled(raised) ==
    raised \in {"TimeoutException", "AttributeError", "KeyError", "ValueError", "TypeError"}

\* The error the handlers of home set.
HandlerError(raised) ==
    IF raised = "TimeoutException"
    THEN <<TimedOut>>
    ELSE <<FailedToFetchPrefix, ExceptionText(raised)>>

\* A mutant of ClientHeldAfterWith: the client is closed by a call at the
\* end of the block instead of by the context manager.
ClientHeldAfterClose(raised) == raised # ""

\* async with httpx.AsyncClient(...) as client: the client is closed when
\* the block is left, normally or by an exception.
ClientHeldAfterWith(raised) == FALSE

\* -------------------------------------------------------------- state
EmptyData == [blocks |-> <<>>, transactions |-> <<>>, logs |-> <<>>, events |-> <<>>]

NoView == [error |-> NoError, blocks |-> <<>>, transactions |-> <<>>,
           logs |-> <<>>, events |-> <<>>]

\* endpoint is what the remote GraphQL endpoint does with the POST of this
\* request; the handler has not started.
Init ==
    /\ endpoint \in PostOutcomes
    /\ pc = "Idle"
    /\ held = FALSE
    /\ posts = 0
    /\ outcome = NoOutcome
    /\ blocks_data = None
    /\ data = EmptyData
    /\ error = NoError
    /\ view = NoView

\* GET / arrives: data and error are initialised and the client is opened.
Request ==
    /\ pc = "Idle"
    /\ pc' = "Fetching"
    /\ held' = TRUE
    /\ posts' = 0
    /\ outcome' = NoOutcome
    /\ blocks_data' = None
    /\ data' = EmptyData
    /\ error' = NoError
    /\ view' = NoView
    /\ UNCHANGED endpoint

\* A mutant of Post: a failed fetch is tried once more.
PostWithRetry ==
    /\ pc = "Fetching"
    /\ outcome' = endpoint
    /\ blocks_data' = fetch_graphql_data(endpoint)
    /\ pc' = IF fetch_graphql_data(endpoint) = None /\ posts < 1
             THEN "Fetching" ELSE "Normalizing"
    /\ posts' = posts + 1
    /\ UNCHANGED <<endpoint, held, data, error, view>>

\* blocks_data = await fetch_graphql_data(client, blocks_query)
Post ==
    /\ pc = "Fetching"
    /\ outcome' = endpoint
    /\ blocks_data' = fetch_graphql_data(endpoint)
    /\ posts' = posts + 1
    /\ pc' = "Normalizing"
    /\ UNCHANGED <<endpoint, held, data, error, view>>

\* The rest of the try block, the exit of the async with, the handlers.
Normalize ==
    /\ pc = "Normalizing"
    /\ \E r \in {TryBody(blocks_data)} :
           /\ data' = [data EXCEPT !.blocks = r.blocks, !.transactions = r.transactions]
           /\ held' = ClientHeldAfterWith(r.raised)
           /\ IF r.raised = ""
              THEN error' = r.error /\ pc' = "Rendering"
              ELSE IF Handled(r.raised)
                   THEN error' = HandlerError(r.raised) /\ pc' = "Rendering"
                   ELSE error' = error /\ pc' = "Unhandled"
    /\ UNCHANGED <<endpoint, posts, outcome, blocks_data, view>>

\* templates.TemplateResponse("blocks.html", {"error": error, **data})
Render ==
    /\ pc = "Rendering"
    /\ view' = [error |-> error, blocks |-> data.blocks,
                transactions |-> data.transactions,
                logs |-> data.logs, events |-> data.events]
    /\ pc' = "Rendered"
    /\ UNCHANGED <<endpoint, held, posts, outcome, blocks_data, data, error>>

Next == Request \/ Post \/ Normalize \/ Render

Spec == Init /\ [][Next]_vars

\* The event loop runs every handler that can run.
FairSpec == Spec /\ WF_vars(Next)

\* ================================================================ claims
Rendered == pc = "Rendered"

Ok200 == outcome.kind = "response" /\ outcome.status = 200

EmptyLists == view.blocks = <<>> /\ view.transactions = <<>>

\* The list under data.Block of a 200 response, when there is one.
BlockListReturned ==
    /\ Ok200
    /\ outcome.body.kind = "object"
    /\ outcome.body.hasData
    /\ ~outcome.body.data.isNull
    /\ outcome.body.data.hasBlock

ReturnedBlocks == outcome.body.data.Block

\* The integer a number string denotes, by table.
NumericValue(num) ==
    CASE num = <<"0","x","1","a">> -> 26
      [] num = <<"2","6">> -> 26
      [] num = <<"0","x","2">> -> 2
      [] num = <<"1","0">> -> 10

ValidNumber(b) == b.hasNumber /\ b.number \in NumberStrings

IsPermutation(s, t) ==
    /\ Len(s) = Len(t)
    /\ \A x \in Range(s) \cup Range(t) :
          Cardinality({i \in DOMAIN s : s[i] = x}) = Cardinality({i \in DOMAIN t : t[i] = x})

\* C1: when every returned block has a hex or decimal number string, the
\* rendered blocks are a permutation of the returned list in descending
\* order of numeric value, hex and decimal read into the same integers.
C1_SortedPermutation ==
    (Rendered /\ BlockListReturned /\ \A i \in DOMAIN ReturnedBlocks : ValidNumber(ReturnedBlocks[i]))
    => /\ IsPermutation(view.blocks, ReturnedBlocks)
       /\ \A i, j \in DOMAIN view.blocks :
             i < j => NumericValue(view.blocks[i].number) >= NumericValue(view.blocks[j].number)

\* A decimal "10" returned before a hexadecimal "0x1a" comes out after it.
C1_Witness ==
    /\ Rendered /\ BlockListReturned
    /\ Len(ReturnedBlocks) = 2
    /\ ReturnedBlocks[1].number = <<"1","0">> /\ ReturnedBlocks[1].hasNumber
    /\ ReturnedBlocks[2].number = <<"0","x","1","a">> /\ ReturnedBlocks[2].hasNumber
    /\ Len(view.blocks) = 2
    /\ view.blocks[1].hash = 2

\* A block's own transactions list (nothing when it has none).
OwnTransactions(b) == IF b.transactions.kind = "list" THEN b.transactions.list ELSE <<>>

\* C2: in every rendered view, transactions is the concatenation, in the
\* order of the view's blocks, of each block's own transactions list.
C2_TransactionsAreConcatenation ==
    Rendered =>
        view.transactions = Concat([i \in DOMAIN view.blocks |-> OwnTransactions(view.blocks[i])])

\* The fetch step failed: no parsed body came back.
FetchFailed == outcome.kind # "response" \/ outcome.status # 200 \/ outcome.body.kind = "text"

\* The normalize step failed on the payload: null data, a missing or
\* non-numeric number, a transactions member that is no list.
NormalizeFailed ==
    /\ Ok200 /\ outcome.body.kind = "object" /\ outcome.body.hasData
    /\ \/ outcome.body.data.isNull
       \/ \E i \in DOMAIN ReturnedBlocks :
             \/ ~ValidNumber(ReturnedBlocks[i])
             \/ ReturnedBlocks[i].transactions.kind = "int"

\* C3: every request reaches Rendered, and a failure of fetch or normalize
\* shows in the error field of the rendered view.
C3_AlwaysRendered ==
    (pc = "Fetching") ~>
        (Rendered /\ ((FetchFailed \/ NormalizeFailed) => view.error # NoError))

\* A payload with a non-numeric block number was rendered with an error.
C3_Witness ==
    /\ Rendered /\ BlockListReturned
    /\ \E i \in DOMAIN ReturnedBlocks :
          ReturnedBlocks[i].hasNumber /\ ReturnedBlocks[i].number \in BadNumberStrings
    /\ view.error # NoError

\* The error home ends with for a given result of client.post.
ErrorFor(o) ==
    LET r == TryBody(fetch_graphql_data(o))
    IN  IF r.raised = "" THEN r.error ELSE HandlerError(r.raised)

\* C4: after a timeout of the POST the view is empty, its error mentions
\* the timeout and differs from the error of any other transport fault.
C4_TimeoutMessage ==
    (Rendered /\ outcome.kind = "timeout")
    => /\ EmptyLists
       /\ view.error # NoError
       /\ TimedOut \in Range(view.error)
       /\ view.error # ErrorFor([kind |-> "fault", status |-> 0, body |-> None])

\* C5: in every rendered view a non-null error comes with empty blocks and
\* empty transactions.
C5_ErrorOnlyWithEmptyData ==
    Rendered => (view.error # NoError => EmptyLists)

\* C6: a 200 payload with "errors" and no usable "data" (absent or null)
\* gives an empty view whose error embeds the errors payload.
C6_GraphQLErrorsEmbedded ==
    (/\ Rendered /\ Ok200 /\ outcome.body.kind = "object"
     /\ outcome.body.hasErrors
     /\ (~outcome.body.hasData \/ outcome.body.data.isNull))
    => /\ EmptyLists
       /\ view.error # NoError
       /\ outcome.body.errors \in Range(view.error)

\* C7: a response whose status is not 200 makes fetch_graphql_data return
\* None and the view carry an error and no data, whatever the body.
C7_Non200IsFailure ==
    (pc \in {"Normalizing", "Rendering", "Rendered"}
     /\ outcome.kind = "response" /\ outcome.status # 200)
    => /\ blocks_data = None
       /\ Rendered => (view.error # NoError /\ EmptyLists)

\* A status 500 whose body is valid JSON with a non-empty data.Block list.
C7_Witness ==
    /\ Rendered
    /\ outcome.kind = "response" /\ outcome.status = 500
    /\ outcome.body.kind = "object" /\ outcome.body.hasData
    /\ outcome.body.data.hasBlock
    /\ outcome.body.data.Block # <<>>
    /\ \A i \in DOMAIN outcome.body.data.Block : ValidNumber(outcome.body.data.Block[i])
    /\ view.error # NoError

\* The payload {"data": {"Block": []}} or {"data": {}}.
EmptyResultPayload ==
    /\ Ok200 /\ outcome.body.kind = "object"
    /\ outcome.body.hasData /\ ~outcome.body.hasErrors
    /\ ~outcome.body.data.isNull
    /\ outcome.body.data.Block = <<>>

\* C8: a successful empty result renders empty lists and no error.
C8_EmptyResultIsNoError ==
    (Rendered /\ EmptyResultPayload) => (EmptyLists /\ view.error = NoError)

C8_Witness ==
    Rendered /\ EmptyResultPayload /\ outcome.body.data.hasBlock /\ view.error = NoError

\* C9: no POST before the fetch step, exactly one once it is over, on
\* every path; normalization and rendering only follow that one call.
C9_ExactlyOnePost ==
    /\ pc \in {"Idle", "Fetching"} => posts = 0 /\ outcome = NoOutcome
    /\ pc \in {"Normalizing", "Rendering", "Rendered", "Unhandled"}
         => posts = 1 /\ outcome # NoOutcome

\* A request whose only POST timed out was rendered.
C9_Witness == Rendered /\ outcome.kind = "timeout" /\ posts = 1

\* C10: once the try block of home is left the client is released, so no
\* client is held when the view is rendered.
C10_ClientReleased ==
    /\ pc \in {"Rendering", "Rendered", "Unhandled"} => ~held
    /\ pc \in {"Fetching", "Normalizing"} => held

\* A request whose normalization raised was rendered with the client released.
C10_Witness ==
    Rendered /\ ~held /\ view.error # NoError /\ FailedToFetchPrefix \in Range(view.error)

====
